---------------------------- MODULE Spec2Model ----------------------------
(***************************************************************************)
(* A model of moon.py: the calendar / Julian-day conversions, the phase    *)
(* calculator, the mean / true phase times, the phase hunter, the phase    *)
(* classifier and the MoonPhase wrapper.                                   *)
(*                                                                         *)
(* Numbers.  The program computes with IEEE doubles; the model computes    *)
(* with scaled integers that stay inside 32 bits:                          *)
(*   - a time of day, and the fraction of a Julian day, in ticks of        *)
(*     100 microseconds (DayTicks ticks to the day);                       *)
(*   - a Julian Day Number as a record [d, t]: d whole days plus t ticks,  *)
(*     0 <= t < DayTicks;                                                  *)
(*   - an angle in degrees in units of 1/AngScale degree;                  *)
(*   - a sine or cosine scaled by SinScale;                                *)
(*   - an angle in radians scaled by RadScale;                             *)
(*   - Julian centuries scaled by TScale, their square by T2Scale and      *)
(*     their cube by T3Scale;                                              *)
(*   - a phase fraction (and a phase selector) scaled by FracScale.        *)
(* A datetime is a record [ord, tod]: the proleptic Gregorian ordinal of   *)
(* its day (0001-01-01 is 1) and its time of day in ticks.                 *)
(***************************************************************************)
EXTENDS Integers, Sequences, FiniteSets, TLC

(***************************************************************************)
(* Scales of the fixed-point representation.                               *)
(***************************************************************************)
AngScale == 10 * 1000
SinScale == 1000 * 1000
RadScale == 10 * 1000 * 1000
TScale == 1000 * 1000
T2Scale == 10 * 1000
T3Scale == 10 * 100
FracScale == 1000 * 1000
Circle == 360 * AngScale
MaxInt == 2147483647

\* 60 * 60 * 24 seconds to the day, in ticks of 100 microseconds
DayTicks == 60 * 60 * 24 * 10000

(***************************************************************************)
(* Exact integer arithmetic that does not overflow 32 bits.                *)
(***************************************************************************)
Abs(x) == IF x < 0 THEN -x ELSE x

\* Products are formed four bits of the multiplier at a time: a pair <<q, r>>
\* stands for the number q * c + r, with 0 <= r < c.

RECURSIVE Shift(_, _, _, _)
\* q * c + r doubled n times
Shift(q, r, n, c) ==
    IF n = 0 THEN <<q, r>>
    ELSE IF r >= c - r THEN Shift(2 * q + 1, r - (c - r), n - 1, c)
    ELSE Shift(2 * q, r + r, n - 1, c)

\* the sum of two pairs
Plus(p, u, c) ==
    IF p[2] >= c - u[2] THEN <<p[1] + u[1] + 1, p[2] - (c - u[2])>>
    ELSE <<p[1] + u[1], p[2] + u[2]>>

RECURSIVE MulDigit(_, _, _)
\* a * d as a pair, for a >= 0, c > 0 and a digit 0 <= d < 16
MulDigit(a, d, c) ==
    IF d = 0 \/ a = 0 THEN <<0, 0>>
    ELSE IF a <= MaxInt \div d THEN <<(a * d) \div c, (a * d) % c>>
    ELSE Plus(Shift(MulDigit(a, d \div 2, c)[1], MulDigit(a, d \div 2, c)[2], 1, c),
              IF d % 2 = 1 THEN <<a \div c, a % c>> ELSE <<0, 0>>, c)

RECURSIVE MulDM(_, _, _)
\* <<q, r>> with a * b = q * c + r and 0 <= r < c, for a >= 0, b >= 0, c > 0
MulDM(a, b, c) ==
    IF b = 0 \/ a = 0 THEN <<0, 0>>
    ELSE IF a <= MaxInt \div b THEN <<(a * b) \div c, (a * b) % c>>
    ELSE LET h == MulDM(a, b \div 16, c)
         IN  Plus(Shift(h[1], h[2], 4, c), MulDigit(a, b % 16, c), c)

\* floor(a * b / c) for any a, b and c > 0
MulDiv(a, b, c) ==
    LET p == MulDM(Abs(a), Abs(b), c)
    IN  IF (a < 0) = (b < 0) THEN p[1]
        ELSE IF p[2] = 0 THEN -p[1] ELSE -p[1] - 1

RECURSIVE ShiftM(_, _, _)
\* r doubled n times, mod c
ShiftM(r, n, c) ==
    IF n = 0 THEN r
    ELSE IF r >= c - r THEN ShiftM(r - (c - r), n - 1, c)
    ELSE ShiftM(r + r, n - 1, c)

\* (r + u) mod c for 0 <= r, u < c
PlusM(r, u, c) == IF r >= c - u THEN r - (c - u) ELSE r + u

RECURSIVE MulDigitM(_, _, _)
\* (a * d) mod c for a >= 0, c > 0 and a digit 0 <= d < 16
MulDigitM(a, d, c) ==
    IF d = 0 \/ a = 0 THEN 0
    ELSE IF a <= MaxInt \div d THEN (a * d) % c
    ELSE PlusM(ShiftM(MulDigitM(a, d \div 2, c), 1, c),
               IF d % 2 = 1 THEN a % c ELSE 0, c)

RECURSIVE MulM(_, _, _)
\* (a * b) mod c for a >= 0, b >= 0, c > 0
MulM(a, b, c) ==
    IF b = 0 \/ a = 0 THEN 0
    ELSE IF a <= MaxInt \div b THEN (a * b) % c
    ELSE PlusM(ShiftM(MulM(a, b \div 16, c), 4, c), MulDigitM(a, b % 16, c), c)

\* (a * b) mod c, in 0 .. c-1, for any a, b and c > 0
MulMod(a, b, c) ==
    LET r == MulM(Abs(a), Abs(b), c)
    IN  IF (a < 0) = (b < 0) \/ r = 0 THEN r ELSE c - r

(***************************************************************************)
(* math.sin and math.cos on degrees (dsin, dcos) and on radians.           *)
(* sin is read from a table of whole degrees and interpolated linearly.    *)
(***************************************************************************)
SinTab ==
    << 0, 17452, 34899, 52336, 69756, 87156, 104528, 121869, 139173, 156434,
       173648, 190809, 207912, 224951, 241922, 258819, 275637, 292372, 309017, 325568,
       342020, 358368, 374607, 390731, 406737, 422618, 438371, 453990, 469472, 484810,
       500000, 515038, 529919, 544639, 559193, 573576, 587785, 601815, 615661, 629320,
       642788, 656059, 669131, 681998, 694658, 707107, 719340, 731354, 743145, 754710,
       766044, 777146, 788011, 798636, 809017, 819152, 829038, 838671, 848048, 857167,
       866025, 874620, 882948, 891007, 898794, 906308, 913545, 920505, 927184, 933580,
       939693, 945519, 951057, 956305, 961262, 965926, 970296, 974370, 978148, 981627,
       984808, 987688, 990268, 992546, 994522, 996195, 997564, 998630, 999391, 999848,
       1000000 >>

\* sin of x, 0 <= x <= 90 degrees
SinQ(x) ==
    LET i == x \div AngScale
        f == x % AngScale
    IN  IF f = 0 THEN SinTab[i + 1]
        ELSE SinTab[i + 1] + ((SinTab[i + 2] - SinTab[i + 1]) * f) \div AngScale

dsin(d) ==
    LET r == d % Circle
        h == Circle \div 2
        q == Circle \div 4
    IN  IF r <= q THEN SinQ(r)
        ELSE IF r <= h THEN SinQ(h - r)
        ELSE IF r <= h + q THEN -SinQ(r - h)
        ELSE -SinQ(Circle - r)

dcos(d) == dsin(d + Circle \div 4)

\* math.degrees: 180 / pi = 57.29577951
degrees(r) == MulDiv(r, 5729578, 10 * RadScale)

(***************************************************************************)
(* datetime: the proleptic Gregorian calendar of the datetime module.      *)
(***************************************************************************)
MAXORDINAL == 3652059

is_leap(y) == y % 4 = 0 /\ (y % 100 # 0 \/ y % 400 = 0)

days_before_year(y) ==
    (y - 1) * 365 + (y - 1) \div 4 - (y - 1) \div 100 + (y - 1) \div 400

days_in_month(y, m) ==
    IF m = 2 THEN (IF is_leap(y) THEN 29 ELSE 28)
    ELSE IF m \in {4, 6, 9, 11} THEN 30 ELSE 31

RECURSIVE days_before_month(_, _)
days_before_month(y, m) ==
    IF m = 1 THEN 0 ELSE days_before_month(y, m - 1) + days_in_month(y, m - 1)

ymd2ord(y, m, d) == days_before_year(y) + days_before_month(y, m) + d

RECURSIVE month_of(_, _, _)
\* the month holding day n (0-based) of year y, searching from month m
month_of(y, n, m) ==
    IF n < days_in_month(y, m) THEN m ELSE month_of(y, n - days_in_month(y, m), m + 1)

\* <<year, month>> of an ordinal
ord2ym(ord) ==
    LET n == ord - 1
        n400 == n \div 146097
        r400 == n % 146097
        n100 == r400 \div 36524
        r100 == r400 % 36524
        n4 == r100 \div 1461
        r4 == r100 % 1461
        n1 == r4 \div 365
        r1 == r4 % 365
        y == n400 * 400 + n100 * 100 + n4 * 4 + n1 + 1
    IN  IF n1 = 4 \/ n100 = 4 THEN <<y - 1, 12>>
        ELSE <<y, month_of(y, r1, 1)>>

\* datetime(y, m, d, hh, mm, ss)
datetime(y, m, d, hh, mm, ss) ==
    [ord |-> ymd2ord(y, m, d), tod |-> ((hh * 60 + mm) * 60 + ss) * 10000]

year(dt) == ord2ym(dt.ord)[1]
month(dt) == ord2ym(dt.ord)[2]

InRange(dt) == 1 <= dt.ord /\ dt.ord <= MAXORDINAL

(***************************************************************************)
(* Reals with a whole part and a fraction of DayTicks: [d, t].             *)
(***************************************************************************)
Norm(d, t) == [d |-> d + t \div DayTicks, t |-> t % DayTicks]

JAdd(a, b) == Norm(a.d + b.d, a.t + b.t)
JSub(a, b) == Norm(a.d - b.d, a.t - b.t)
JLess(a, b) == a.d < b.d \/ (a.d = b.d /\ a.t < b.t)
JLeq(a, b) == a.d < b.d \/ (a.d = b.d /\ a.t <= b.t)
\* a number of ticks, of either sign, as a real
Ticks(n) == Norm(0, n)

(***************************************************************************)
(* The calendar / Julian-day converter.                                    *)
(***************************************************************************)
\* the days counted from day 0 instead of from datetime(1, 1, 1)
datetime_to_days_from_zero(dt) == [d |-> dt.ord, t |-> dt.tod]

datetime_to_days(dt) == [d |-> dt.ord - 1, t |-> dt.tod]

datetime_to_julian_days(dt) ==
    JAdd(JAdd(datetime_to_days(dt), [d |-> 1721424, t |-> DayTicks \div 2]),
         [d |-> 1, t |-> 0])

julian_days_to_datetime(julian_days) ==
    LET days == JSub(julian_days,
                     JAdd([d |-> 1721424, t |-> DayTicks \div 2], [d |-> 1, t |-> 0]))
    IN  [ord |-> 1 + days.d, tod |-> days.t]

(***************************************************************************)
(* Orbital elements and the other module constants.                        *)
(***************************************************************************)
\* fractions of the cycle, scaled by FracScale
PRECISION == 50000
NEW_MOON == 0
FIRST_QUARTER == 250000
FULL_MOON == 500000
LAST_QUARTER == 750000
NEXT_NEW == 1000000

\* 2444238.5
EPOCH == [d |-> 2444238, t |-> DayTicks \div 2]
\* degrees, scaled by AngScale
ECLIPTIC_LONGITUDE_EPOCH == 2788335
ECLIPTIC_LONGITUDE_PERIGEE == 2825964
MOON_MEAN_LONGITUDE_EPOCH == 649755
MOON_MEAN_PERIGEE_EPOCH == 3493831
MOON_ANGULAR_SIZE == 5181
\* scaled by SinScale
ECCENTRICITY == 16718
MOON_ECCENTRICITY == 54900
SUN_ANGULAR_SIZE_SMAXIS == 533128
\* kilometres
SUN_SMAXIS == 149585000
MOON_SMAXIS == 384401
\* 29.53058868 days: the whole days and the fraction in 1e-8 day
SYNODIC_MONTH_DAYS == 29
SYNODIC_MONTH_FRAC == 53058868

(***************************************************************************)
(* Little handy mathematical functions.                                    *)
(***************************************************************************)
\* the remainder with the sign of the dividend, as math.fmod has it
norm_angle_fmod(angle) ==
    IF angle < 0 THEN -((-angle) % Circle) ELSE angle % Circle

norm_angle(angle) == angle % Circle

(***************************************************************************)
(* phase_string.  A phase fraction p is scaled by FracScale.               *)
(***************************************************************************)
phase_strings ==
    << <<NEW_MOON + PRECISION, "new">>,
       <<FIRST_QUARTER - PRECISION, "waxing crescent">>,
       <<FIRST_QUARTER + PRECISION, "first quarter">>,
       <<FULL_MOON - PRECISION, "waxing gibbous">>,
       <<FULL_MOON + PRECISION, "full">>,
       <<LAST_QUARTER - PRECISION, "waning gibbous">>,
       <<LAST_QUARTER + PRECISION, "last quarter">>,
       <<NEXT_NEW - PRECISION, "waning crescent">>,
       <<NEXT_NEW + PRECISION, "new">> >>

\* bisect.bisect_left: the number of entries that are < x
bisect_left(a, x) == Cardinality({j \in 1..Len(a) : a[j] < x})

\* the label one bucket below: the index used without the step to the next entry
phase_string_previous(p) ==
    LET i == Cardinality({j \in 1..Len(phase_strings) : phase_strings[j][1] <= p})
    IN  IF i = 0 THEN "new" ELSE phase_strings[i][2]

\* bisect.bisect (bisect_right) on an ascending list: the number of entries
\* that are <= x, the 0-based index of the first entry greater than x
bisect(a, x) == Cardinality({j \in 1..Len(a) : a[j] <= x})

\* the label, or "IndexError" when the index is past the table
phase_string(p) ==
    LET i == bisect([j \in 1..Len(phase_strings) |-> phase_strings[j][1]], p)
    IN  IF i < Len(phase_strings) THEN phase_strings[i + 1][2] ELSE "IndexError"

(***************************************************************************)
(* mean_phase and true_phase.  A lunation index with its quarter fraction  *)
(* (k + tphase) is the integer x = k * SelScale + tphase, a phase selector *)
(* being scaled by SelScale.  Corrections of a time are in 1e-6 day.       *)
(***************************************************************************)
SelScale == 10 * 100
MicroDay == DayTicks \div (1000 * 1000)

\* c * x / SelScale days as a real, for the decimal c = ci + cf8 / 1e8
RealMul(x, ci, cf8) ==
    LET a == Abs(x)
        p1 == MulDM(a, ci, SelScale)
        p2 == MulDM(a, cf8, 10000 * 10000)
        v == Norm(p1[1] + p2[1] \div SelScale,
                  MulDiv(p1[2], DayTicks, SelScale)
                  + MulDiv(p2[1] % SelScale, DayTicks, SelScale)
                  + MulDiv(p2[2], DayTicks \div SelScale, 10000 * 10000))
    IN  IF x >= 0 THEN v ELSE Norm(-v.d, -v.t)

\* c * x / SelScale degrees, modulo 360, for the decimal c = ci + cf8 / 1e8
AngMul(x, ci, cf8) ==
    (MulMod(x, ci * (AngScale \div SelScale), Circle)
     + (MulDiv(x, cf8, (10000 * 10000) \div (AngScale \div SelScale)) % Circle)) % Circle

\* 2415020.75933 + SYNODIC_MONTH * k + 0.0001178 * t2 - 0.000000155 * t3
\*   + 0.00033 * dsin(166.56 + 132.87 * t - 0.009173 * t2)
MeanTime(x, t, t2, t3) ==
    JAdd(JAdd([d |-> 2415020, t |-> 656061120],
              RealMul(x, SYNODIC_MONTH_DAYS, SYNODIC_MONTH_FRAC)),
         Ticks(MicroDay * (MulDiv(t2, 1178, 100000)
                           - MulDiv(t3, 155, 1000 * 1000)
                           + MulDiv(330, dsin(1665600 + MulDiv(t, 13287, 10000)
                                              - MulDiv(t2, 9173, 1000 * 1000)),
                                    SinScale))))

\* (sdate - datetime(1900, 1, 1, 12)).days
DaysSince1900(sdate) ==
    sdate.ord - ymd2ord(1900, 1, 1) - (IF sdate.tod < DayTicks \div 2 THEN 1 ELSE 0)

\* t2 = t * t and t3 = t2 * t
Square(t) == MulDiv(t, t, (TScale \div T2Scale) * TScale)
Cube(t) == MulDiv(Square(t), t, (T2Scale \div T3Scale) * TScale)

\* t = delta_t.days / 36525
mean_phase(sdate, k) ==
    MeanTime(k * SelScale, MulDiv(DaysSince1900(sdate), TScale, 36525),
             Square(MulDiv(DaysSince1900(sdate), TScale, 36525)),
             Cube(MulDiv(DaysSince1900(sdate), TScale, 36525)))

\* c * dsin(a), c in 1e-6 day
Term(c, a) == MulDiv(c, dsin(a), SinScale)

\* the selector test of the new / full moon branch
IsNewOrFull(tphase) == tphase < 10 \/ Abs(tphase - 500) < 10
\* the selector test of the first / last quarter branch
IsQuarter(tphase) == Abs(tphase - 250) < 10 \/ Abs(tphase - 750) < 10

\* m: the Sun's mean anomaly
SunAnomaly(x, t2, t3) ==
    (3592242 + AngMul(x, 29, 10535608)
     - MulDiv(t2, 333, 10000 * 1000) - MulDiv(t3, 347, 10000 * 1000)) % Circle

\* mprime: the Moon's mean anomaly
MoonAnomaly(x, t2, t3) ==
    (3060253 + AngMul(x, 385, 81691806)
     + MulDiv(t2, 107306, 10000 * 1000) + MulDiv(t3, 1236, 10000 * 1000)) % Circle

\* f: the Moon's argument of latitude
MoonLatitude(x, t2, t3) ==
    (212964 + AngMul(x, 390, 67050646)
     - MulDiv(t2, 16528, 10000 * 1000) - MulDiv(t3, 239, 10000 * 1000)) % Circle

\* the corrections for new and full moon, in millionths of a day
NewFullCorrection(t, m, mprime, f) ==
      Term(173400 - MulDiv(t, 393, TScale), m)
    + Term(2100, 2 * m)
    - Term(406800, mprime)
    + Term(16100, 2 * mprime)
    - Term(400, 3 * mprime)
    + Term(10400, 2 * f)
    - Term(5100, m + mprime)
    - Term(7400, m - mprime)
    + Term(400, 2 * f + m)
    - Term(400, 2 * f - m)
    - Term(600, 2 * f + mprime)
    + Term(1000, 2 * f - mprime)
    + Term(500, m + 2 * mprime)

\* the corrections for the first and last quarters, in millionths of a day
QuarterCorrection(t, m, mprime, f) ==
      Term(172100 - MulDiv(t, 400, TScale), m)
    + Term(2100, 2 * m)
    - Term(628000, mprime)
    + Term(8900, 2 * mprime)
    - Term(400, 3 * mprime)
    + Term(7900, 2 * f)
    - Term(11900, m + mprime)
    - Term(4700, m - mprime)
    + Term(300, 2 * f + m)
    - Term(400, 2 * f - m)
    - Term(600, 2 * f + mprime)
    + Term(2100, 2 * f - mprime)
    + Term(300, m + 2 * mprime)
    + Term(400, m - 2 * mprime)
    - Term(300, 2 * m + mprime)

\* 0.0028 - 0.0004 * dcos(m) + 0.0003 * dcos(mprime): added for the first
\* quarter, subtracted for the last
QuarterSkew(m, mprime) ==
    2800 - MulDiv(400, dcos(m), SinScale) + MulDiv(300, dcos(mprime), SinScale)

\* the mean time of the phase returned without the periodic corrections
Uncorrected(tphase, pt, t, m, mprime, f) == pt

\* the branches of true_phase on the selector, applied to the mean time pt
Corrected(tphase, pt, t, m, mprime, f) ==
    IF IsNewOrFull(tphase)
      THEN JAdd(pt, Ticks(MicroDay * NewFullCorrection(t, m, mprime, f)))
    ELSE IF IsQuarter(tphase)
      THEN (IF tphase < 500
              THEN JAdd(pt, Ticks(MicroDay * (QuarterCorrection(t, m, mprime, f)
                                             + QuarterSkew(m, mprime))))
              ELSE JAdd(pt, Ticks(MicroDay * (QuarterCorrection(t, m, mprime, f)
                                             - QuarterSkew(m, mprime)))))
    ELSE pt

\* the corrected time for x = k + tphase and t = x / 1236.85
TrueTimeAt(x, tphase, t) ==
    Corrected(tphase, MeanTime(x, t, Square(t), Cube(t)), t,
              SunAnomaly(x, Square(t), Cube(t)),
              MoonAnomaly(x, Square(t), Cube(t)),
              MoonLatitude(x, Square(t), Cube(t)))

\* the corrected time of the phase as a Julian Day Number; the caller
\* raises ValueError when neither branch applies
TruePhaseTime(k, tphase) ==
    TrueTimeAt(k * SelScale + tphase, tphase,
               MulDiv(k * SelScale + tphase, 100 * (TScale \div SelScale), 123685))

\* an exception raised, as a value
Raise(e) == [error |-> e]
IsError(v) == "error" \in DOMAIN v

\* a datetime, or the error raised
\* a datetime as the datetime module makes it: OverflowError outside
\* the years 1 to 9999
Made(dt) == IF InRange(dt) THEN dt ELSE Raise("OverflowError")

true_phase(k, tphase) ==
    IF ~(IsNewOrFull(tphase) \/ IsQuarter(tphase)) THEN Raise("ValueError")
    ELSE Made(julian_days_to_datetime(TruePhaseTime(k, tphase)))

(***************************************************************************)
(* kepler: Newton's iteration on Kepler's equation, in radians.            *)
(***************************************************************************)
\* the solver works in radians scaled by KepScale
KepScale == 10 * RadScale
\* math.pi, scaled by KepScale
Pi == 314159265
\* 1e-6 radians
epsilon == KepScale \div (1000 * 1000)
\* iterations of the solver that are followed
MaxKepler == 16

RECURSIVE Series(_, _, _, _)
\* the power series of sin (from term x, k = 1) and of cos (from term 1,
\* k = 0): each term is the one before times -x^2 / ((k + 1) * (k + 2))
Series(term, x2, k, sum) ==
    IF term = 0 THEN sum
    ELSE Series((-MulDiv(term, x2, KepScale)) \div ((k + 1) * (k + 2)),
                x2, k + 2, sum + term)

\* an angle brought into [-pi, pi)
Wrap(x) == ((x + Pi) % (2 * Pi)) - Pi

\* math.sin of an angle in [-pi, pi), scaled by KepScale
SinWrapped(r) ==
    IF 2 * r > Pi THEN Series(Pi - r, MulDiv(Pi - r, Pi - r, KepScale), 1, 0)
    ELSE IF 2 * r < -Pi
        THEN Series(-Pi - r, MulDiv(Pi + r, Pi + r, KepScale), 1, 0)
    ELSE Series(r, MulDiv(r, r, KepScale), 1, 0)

\* math.cos of an angle in [0, pi], scaled by KepScale
CosWrapped(r) ==
    IF 2 * r > Pi
        THEN -Series(KepScale, MulDiv(Pi - r, Pi - r, KepScale), 0, 0)
    ELSE Series(KepScale, MulDiv(r, r, KepScale), 0, 0)

\* math.sin and math.cos of radians, scaled by KepScale
sin(x) == SinWrapped(Wrap(x))
cos(x) == CosWrapped(Abs(Wrap(x)))

\* delta = e - ecc * sin(e) - m
KeplerDelta(e, m, ecc) == e - MulDiv(ecc, sin(e), SinScale) - m

\* 1.0 - ecc * cos(e), scaled by KepScale
KeplerSlope(e, ecc) == KepScale - MulDiv(ecc, cos(e), SinScale)

\* delta / slope, for a slope scaled by KepScale that is not 0
Quotient(delta, slope) ==
    IF slope < 0 THEN MulDiv(-delta, KepScale, -slope)
    ELSE MulDiv(delta, KepScale, slope)

\* math.radians(m), scaled by KepScale
KeplerRadians(m) == MulDiv(m, Pi, 180 * AngScale)

\* the locals of kepler as its loop is entered: m = math.radians(m); e = m
KeplerLocals(m, ecc) ==
    [m |-> KeplerRadians(m), e |-> KeplerRadians(m), ecc |-> ecc, iter |-> 0,
     break |-> FALSE]

\* e = e - delta / (1.0 - ecc * cos(e)) and the test that breaks the loop
KeplerUpdate(l, delta) ==
    [l EXCEPT !.e = l.e - Quotient(delta, KeplerSlope(l.e, l.ecc)),
              !.iter = @ + 1,
              !.break = Abs(delta) <= epsilon]

\* one iteration of the loop: the locals after it, or the error raised
KeplerNext(l) ==
    IF KeplerSlope(l.e, l.ecc) = 0 THEN Raise("ZeroDivisionError")
    ELSE KeplerUpdate(l, KeplerDelta(l.e, l.m, l.ecc))

RECURSIVE KeplerLoop(_, _)
\* the locals when the loop breaks, or when n iterations did not end it
KeplerLoop(l, n) ==
    IF n = 0 \/ IsError(l) THEN l
    ELSE IF l.break THEN l ELSE KeplerLoop(KeplerNext(l), n - 1)

\* m in degrees, ecc scaled by SinScale; for the eccentricity of the Earth's
\* orbit the loop breaks within 3 iterations
kepler(m, ecc) ==
    KeplerLoop(KeplerLocals(m, ecc), MaxKepler).e \div (KepScale \div RadScale)

(***************************************************************************)
(* phase.                                                                  *)
(***************************************************************************)
\* sqrt((1 + ECCENTRICITY) / (1 - ECCENTRICITY)) = 1.0168601, scaled by SinScale
SqrtRatio == 1016860

\* F(a) <= 0 exactly when tan(a) <= c * s / co, for co > 0 and -90 <= a <= 90
AtanSide(a, c, s, co) ==
    MulDiv(dsin(a), co, SinScale) - MulDiv(MulDiv(c, s, SinScale), dcos(a), SinScale)

\* the points tried in each round of the search for the arc tangent
AtanFan == 2 * 4

RECURSIVE AtanSearch(_, _, _, _, _)
\* the a in lo .. lo + width - 1 with AtanSide(a) <= 0 < AtanSide(a + 1), given
\* AtanSide(lo) <= 0 < AtanSide(lo + width)
AtanSearch(lo, width, c, s, co) ==
    IF width <= 1 THEN lo
    ELSE LET step == (width + AtanFan - 1) \div AtanFan
             j == Cardinality({i \in 1..(AtanFan - 1) :
                                 i * step < width
                                 /\ AtanSide(lo + i * step, c, s, co) <= 0})
         IN  AtanSearch(lo + j * step,
                        IF (j + 1) * step > width THEN width - j * step ELSE step,
                        c, s, co)

\* degrees(atan(c * tan(h))) for h in degrees: the angle in (-90, 90] whose
\* tangent is c * sin(h) / cos(h)
AtanTan(c, h) ==
    LET s == dsin(h)
        co == dcos(h)
        q == Circle \div 4
    IN  IF co = 0 THEN (IF s > 0 THEN q ELSE -q)
        ELSE IF co > 0 THEN AtanSearch(-q, 2 * q, c, s, co)
        ELSE AtanSearch(-q, 2 * q, c, -s, -co)

\* (ci + cf8 / 1e8) * day degrees, modulo 360, for a real number of days
DayAngle(day, ci, cf8) ==
    LET p == MulDM(Abs(day.d), cf8, 10000 * 10000)
        whole == (MulMod(Abs(day.d), ci * AngScale, Circle)
                  + (p[1] % 360) * AngScale + p[2] \div 10000) % Circle
        part == MulDiv(day.t, ci * AngScale + cf8 \div 10000, DayTicks)
    IN  ((IF day.d >= 0 THEN whole ELSE Circle - whole) + part) % Circle

\* phase is modelled as its assignments in order, in six groups; each group
\* is an operator from the local variables computed so far to those still
\* needed.

\* day, N (360 / 365.2422 = 0.98564733) and M
SunMean(phase_date) ==
    LET day == JSub(datetime_to_julian_days(phase_date), EPOCH)
        N == norm_angle(DayAngle(day, 0, 98564733))
    IN  [day |-> day,
         M |-> norm_angle(N + ECLIPTIC_LONGITUDE_EPOCH - ECLIPTIC_LONGITUDE_PERIGEE)]

\* Ec (Kepler's equation, then the true anomaly), lambda_sun, F
SunTrue(v) ==
    LET Ec == 2 * AtanTan(SqrtRatio, degrees(kepler(v.M, ECCENTRICITY)) \div 2)
    IN  [day |-> v.day, M |-> v.M,
         lambda_sun |-> norm_angle(Ec + ECLIPTIC_LONGITUDE_PERIGEE),
         F |-> MulDiv(SinScale + MulDiv(ECCENTRICITY, dcos(Ec), SinScale), SinScale,
                      SinScale - MulDiv(ECCENTRICITY, ECCENTRICITY, SinScale))]

\* moon_longitude, MM, evection
MoonMean(v) ==
    LET moon_longitude ==
            norm_angle(DayAngle(v.day, 13, 17639660) + MOON_MEAN_LONGITUDE_EPOCH)
        MM == norm_angle(moon_longitude - DayAngle(v.day, 0, 11140410)
                         - MOON_MEAN_PERIGEE_EPOCH)
    IN  [M |-> v.M, lambda_sun |-> v.lambda_sun, F |-> v.F,
         moon_longitude |-> moon_longitude, MM |-> MM,
         evection |-> MulDiv(12739, dsin(2 * (moon_longitude - v.lambda_sun) - MM),
                             SinScale)]

\* annual_eq, A3, MmP, mEc
MoonCentre(v) ==
    LET annual_eq == MulDiv(1858, dsin(v.M), SinScale)
        A3 == MulDiv(3700, dsin(v.M), SinScale)
        MmP == v.MM + v.evection - annual_eq - A3
    IN  [lambda_sun |-> v.lambda_sun, F |-> v.F, moon_longitude |-> v.moon_longitude,
         evection |-> v.evection, annual_eq |-> annual_eq, MmP |-> MmP,
         mEc |-> MulDiv(62886, dsin(MmP), SinScale)]

\* A4, lP, variation, lPP, moon_age
MoonAge(v) ==
    LET A4 == MulDiv(2140, dsin(2 * v.MmP), SinScale)
        lP == v.moon_longitude + v.evection + v.mEc - v.annual_eq + A4
        variation == MulDiv(6583, dsin(2 * (lP - v.lambda_sun)), SinScale)
    IN  [F |-> v.F, MmP |-> v.MmP, mEc |-> v.mEc,
         moon_age |-> lP + variation - v.lambda_sun]

\* moon_phase, moon_dist, the diameters, sun_dist and the mapping returned
PhaseResult(v) ==
    LET moon_dist ==
            MulDiv(MulDiv(MOON_SMAXIS,
                          SinScale - MulDiv(MOON_ECCENTRICITY, MOON_ECCENTRICITY,
                                            SinScale),
                          SinScale),
                   SinScale,
                   SinScale + MulDiv(MOON_ECCENTRICITY, dcos(v.MmP + v.mEc), SinScale))
    IN  [phase |-> MulDiv(norm_angle(v.moon_age), FracScale, Circle),
         illuminated |-> (SinScale - dcos(v.moon_age)) \div 2,
         age |-> MulDiv(norm_angle(v.moon_age),
                        SYNODIC_MONTH_DAYS * 1000 * 1000 + SYNODIC_MONTH_FRAC \div 100,
                        Circle),
         distance |-> moon_dist,
         angular_diameter |-> MulDiv(MOON_ANGULAR_SIZE * 100, MOON_SMAXIS, moon_dist),
         sun_distance |-> MulDiv(SUN_SMAXIS, SinScale, v.F),
         sun_angular_diameter |-> MulDiv(v.F, SUN_ANGULAR_SIZE_SMAXIS, SinScale)]

\* the result mapping of phase for a datetime
phase(phase_date) ==
    PhaseResult(MoonAge(MoonCentre(MoonMean(SunTrue(SunMean(phase_date))))))

(***************************************************************************)
(* The state: one Python process that has imported the module and makes    *)
(* calls into it, one at a time; and, for the calls made concurrently,     *)
(* threads of that process that each run phase_hunt.                       *)
(***************************************************************************)
VARIABLES
    now,           \* the UTC clock: the number of clock steps since the import
    default_date,  \* the value of the default argument date=datetime.utcnow()
    pc,            \* "idle", "hunt_loop", "hunt_found", "kepler_loop" or "returned"
    call,          \* the call in progress or just returned
    loc,           \* the local variables of phase_hunt or of kepler
    result,        \* what the call returned, or the error it raised
    last_noarg,    \* the previous call made without a date, if any: << >> or <<c>>
    obj,           \* the MoonPhase object the process holds, if any
    th             \* the threads: the frame of each one's call of phase_hunt

vars == <<now, default_date, pc, call, loc, result, last_noarg, obj, th>>

\* no call, no locals, no result, no object
None == [none |-> TRUE]
\* the argument of a call made without a date
NoArg == [noarg |-> TRUE]

(***************************************************************************)
(* Bounds of the model and the inputs the calls are tried with.            *)
(***************************************************************************)
\* clock steps followed after the import
MaxClock == 1
\* iterations of the search loop of phase_hunt that are followed
MaxHunt == 24
\* consecutive days tried after each base date
SpanDays == 30
\* lunation indexes given to true_phase directly: KBase + i * KStride, i <= MaxK
MaxK == 5
\* phase selectors given to true_phase: within MaxSel of a quarter, and a grid
MaxSel == 12
\* rounding error of a double holding a Julian Day Number, in ticks
FloatErr == 2
\* calls of phase_hunt one MoonPhase object is followed through
MaxCalls == 2

\* the UTC time at the import, and the length of a clock step in days
ClockBase == datetime(2024, 2, 9, 22, 0, 0)
ClockStep == 3 * 3
utcnow(n) == [ord |-> ClockBase.ord + n * ClockStep, tod |-> ClockBase.tod]

BaseDates ==
    { datetime(1, 1, 1, 0, 0, 0), datetime(1, 2, 14, 0, 0, 0),
      datetime(1582, 10, 1, 0, 0, 0), datetime(1900, 1, 1, 0, 0, 0),
      datetime(1999, 12, 20, 0, 0, 0), datetime(2024, 2, 1, 0, 0, 0),
      datetime(9998, 6, 1, 0, 0, 0), datetime(9999, 12, 1, 0, 0, 0) }

\* every Step-th quarter of a day of the SpanDays days after each base date
Spread(Bases, Step) ==
    { dt \in { [ord |-> b.ord + (i * Step) \div 4,
                tod |-> ((i * Step) % 4) * (DayTicks \div 4)] :
                 b \in Bases, i \in 0..((4 * SpanDays) \div Step) } : InRange(dt) }

\* the datetimes given to phase: every six hours
Dates == Spread(BaseDates, 1)

\* the datetimes given to phase_hunt: every twelve hours
HuntDates == Spread(BaseDates, 2)

\* times of day, down to one tick
Tods == {0, 1, 1234567, DayTicks \div 2 - 1, DayTicks \div 2, DayTicks - 1}

\* datetimes given to the converters
ConvDates ==
    { dt \in { [ord |-> b.ord + i * SpanDays, tod |-> t] :
                 b \in BaseDates \cup {datetime(2000, 1, 1, 0, 0, 0)},
                 i \in 0..1, t \in Tods } : InRange(dt) }

\* datetimes MoonPhase objects are made for
ObjDates ==
    { datetime(1, 1, 20, 0, 0, 0), datetime(1900, 1, 1, 12, 0, 0),
      datetime(2024, 2, 9, 18, 0, 0), datetime(2024, 2, 20, 0, 0, 0),
      datetime(9998, 6, 15, 0, 0, 0) }

\* datetimes the threads call phase_hunt with
ThreadDates ==
    { datetime(1, 1, 20, 0, 0, 0), datetime(1900, 1, 1, 12, 0, 0),
      datetime(2024, 2, 9, 18, 0, 0), datetime(2024, 2, 20, 0, 0, 0) }
Threads == {1, 2}

\* plain numbers given where a datetime is expected
Numbers == {[number |-> 2452186]}

IsDatetime(v) == DOMAIN v = {"ord", "tod"}

\* phase fractions given to phase_string: a grid, each boundary with its two
\* neighbours, and the fractions the documentation names
GridStep == 125 * 100
Fractions ==
    { g * GridStep : g \in -4..(FracScale \div GridStep + 8) }
    \cup { phase_strings[j][1] + e : j \in 1..Len(phase_strings), e \in {-1, 0, 1} }
    \cup { 0, 250000, 500000, 750000, 970000, 449999, 450000 }

KBase == 1236 - 24720
KStride == 24 * 1030
Lunations == { KBase + i * KStride : i \in 0..MaxK }
SelStep == 5 * 10
Selectors ==
    { c + e : c \in {0, 250, 500, 750, 1000}, e \in -MaxSel..MaxSel }
    \cup { g * SelStep : g \in -MaxSel..(SelScale \div SelStep + MaxSel) }

\* mean anomalies in degrees and eccentricities given to kepler directly
KeplerAngles == { a * AngScale : a \in {0, 30, 90, 120, 150, 180, 200, 270} }
KeplerEccs == { ECCENTRICITY, SinScale \div 2, SinScale, (3 * SinScale) \div 2 }

\* attribute names read from a MoonPhase object
QuarterNames == <<"new_date", "q1_date", "full_date", "q3_date", "nextnew_date">>
StoredNames ==
    { "date", "phase", "illuminated", "age", "distance", "angular_diameter",
      "sun_distance", "sun_angular_diameter", "phase_text" }
AttrNames ==
    StoredNames \cup { QuarterNames[j] : j \in 1..5 } \cup { "no_such_attribute" }

(***************************************************************************)
(* Calls and what they return.                                             *)
(***************************************************************************)
\* the date a call computes for: its argument, or the default argument,
\* which Python evaluated once, when the def statement ran at the import
DateOf(arg) == IF arg = NoArg THEN default_date ELSE arg

\* phase(phase_date): datetime_to_days subtracts datetime(1, 1, 1) from its
\* argument, which raises TypeError for a number
phase_or_error(phase_date) ==
    IF IsDatetime(phase_date) THEN phase(phase_date) ELSE Raise("TypeError")

\* self.__dict__.update(phase(self.date)) and self.phase_text, for the
\* mapping p that phase returned
Attributes(date, p) ==
    IF IsError(p) THEN p
    ELSE [date |-> date, phase |-> p.phase, illuminated |-> p.illuminated,
          age |-> p.age, distance |-> p.distance,
          angular_diameter |-> p.angular_diameter,
          sun_distance |-> p.sun_distance,
          sun_angular_diameter |-> p.sun_angular_diameter,
          phase_text |-> phase_string(p.phase)]

\* MoonPhase.__init__: the attributes of the new object, or the error
MoonPhase_init(date) == Attributes(date, phase_or_error(date))

\* main: what the sentence it prints is made of
main_text(m) ==
    IF IsError(m) THEN m
    ELSE [phase_text |-> m.phase_text, illuminated |-> m.illuminated, age |-> m.age]

\* SYNODIC_MONTH as a real
SYNODIC_MONTH == RealMul(SelScale, SYNODIC_MONTH_DAYS, SYNODIC_MONTH_FRAC)

\* floor((adate.year + ((adate.month - 1) * (1.0 / 12.0)) - 1900) * 12.3685)
FirstK(adate) ==
    MulDiv((year(adate) - 1900) * 12 + (month(adate) - 1), 123685, 120000)

\* the list with its last moment taken from lunation k1 as well
phases_same_lunation(k1, k2) ==
    << true_phase(k1, 0), true_phase(k1, SelScale \div 4),
       true_phase(k1, (2 * SelScale) \div 4), true_phase(k1, (3 * SelScale) \div 4),
       true_phase(k1, 0) >>

\* list(map(true_phase, [k1, k1, k1, k1, k2], [0/4, 1/4, 2/4, 3/4, 0/4]))
phases(k1, k2) ==
    << true_phase(k1, 0), true_phase(k1, SelScale \div 4),
       true_phase(k1, (2 * SelScale) \div 4), true_phase(k1, (3 * SelScale) \div 4),
       true_phase(k2, 0) >>

\* the list, or the first error raised while it is built
Listed(ps) ==
    IF \A j \in 1..5 : ~IsError(ps[j]) THEN [phases |-> ps]
    ELSE ps[CHOOSE j \in 1..5 : IsError(ps[j]) /\ \A i \in 1..(j - 1) : ~IsError(ps[i])]

HuntResult(k1, k2) == Listed(phases(k1, k2))

\* a call: at is the clock when it is made, date the date it computes for
\* and noarg whether it was made without one
Called(op, arg, date) ==
    [op |-> op, arg |-> arg, at |-> now, date |-> date,
     noarg |-> op \in {"phase", "MoonPhase", "main", "phase_hunt"} /\ arg = NoArg]

Returns(c, r) ==
    /\ pc' = "returned"
    /\ call' = c
    /\ result' = r
    /\ UNCHANGED <<now, default_date, loc, last_noarg, th>>

\* a value read from an object, as a result
Value(v) == [value |-> v]

\* a MoonPhase object: its stored attributes, the five quarter dates once
\* they are stored, and the calls of phase_hunt its __getattr__ has made
Object(attrs) == [attrs |-> attrs, quarters |-> << >>, hunts |-> 0]

\* one thread's frame: no call yet
IdleFrame == [pc |-> "idle", arg |-> None, loc |-> None, result |-> None]

Init ==
    /\ now = 0
    /\ default_date = utcnow(0)
    /\ pc = "idle"
    /\ call = [op |-> "none"]
    /\ loc = None
    /\ result = None
    /\ last_noarg = << >>
    /\ obj = None
    /\ th = [t \in Threads |-> IdleFrame]

\* time passes between two calls
Tick ==
    /\ pc = "idle"
    /\ now < MaxClock
    /\ now' = now + 1
    /\ UNCHANGED <<default_date, pc, call, loc, result, last_noarg, obj, th>>

CallPhaseString(Ps) ==
    /\ pc = "idle"
    /\ \E p \in Ps :
         Returns(Called("phase_string", p, None), phase_string(p))
    /\ obj' = obj

CallTruePhase(Ks, Ts) ==
    /\ pc = "idle"
    /\ \E k \in Ks, t \in Ts :
         Returns(Called("true_phase", <<k, t>>, None), true_phase(k, t))
    /\ obj' = obj

CallPhase(Args) ==
    /\ pc = "idle"
    /\ \E arg \in Args :
         Returns(Called("phase", arg, DateOf(arg)), phase_or_error(DateOf(arg)))
    /\ obj' = obj

\* m = MoonPhase(date): the process holds the new object, unless the
\* constructor raised
Constructed(c, attrs) ==
    /\ Returns(c, attrs)
    /\ obj' = IF IsError(attrs) THEN obj ELSE Object(attrs)

NewMoonPhase(Args) ==
    /\ pc = "idle"
    /\ \E arg \in Args :
         Constructed(Called("MoonPhase", arg, DateOf(arg)), MoonPhase_init(DateOf(arg)))

\* main makes its own MoonPhase object and drops it
CallMain ==
    /\ pc = "idle"
    /\ Returns(Called("main", NoArg, DateOf(NoArg)),
               main_text(MoonPhase_init(DateOf(NoArg))))
    /\ obj' = obj

CallToJulian(Args) ==
    /\ pc = "idle"
    /\ \E dt \in Args :
         Returns(Called("datetime_to_julian_days", dt, dt), datetime_to_julian_days(dt))
    /\ obj' = obj

\* A double holds a Julian Day Number exactly when its fraction is a
\* multiple of 1/2048 day (DayTicks = 2048 * 421875); any other is rounded,
\* by less than a tick below 2^21 days and by at most FloatErr ticks above
RoundingErrors(j) ==
    IF j.t % 421875 = 0 THEN {0}
    ELSE IF j.d < 2097152 THEN -1..1
    ELSE -FloatErr..FloatErr

\* the Julian Day Number just returned, as the double holds it, is
\* converted back
CallFromJulian ==
    /\ pc = "returned"
    /\ call.op = "datetime_to_julian_days"
    /\ \E e \in RoundingErrors(result) :
         Returns(Called("julian_days_to_datetime", JAdd(result, Ticks(e)), call.date),
                 Made(julian_days_to_datetime(JAdd(result, Ticks(e)))))
    /\ obj' = obj

\* the locals of phase_hunt as its loop is entered
HuntLocals(sdate, k1, nt1) ==
    [sdate |-> sdate, k1 |-> k1, k2 |-> None, nt1 |-> nt1, nt2 |-> None,
     adate_0 |-> nt1, iter |-> 0, found |-> FALSE]

\* phase_hunt from adate = sdate - timedelta(days=45) to the loop
HuntEnter(sdate, adate) ==
    IF ~InRange(adate) THEN Raise("OverflowError")
    ELSE HuntLocals(sdate, FirstK(adate), mean_phase(adate, FirstK(adate)))

\* phase_hunt up to its loop: the locals, or the error raised; the
\* subtraction raises TypeError for a number
HuntInit(sdate) ==
    IF ~IsDatetime(sdate) THEN Raise("TypeError")
    ELSE HuntEnter(sdate, [ord |-> sdate.ord - 45, tod |-> sdate.tod])

\* the test of the loop with the step to the next lunation left out: nt1
\* and k1 stay as they are when the test fails
HuntTestNoAdvance(l, adate_0, nt2, q) ==
    IF JLeq(l.nt1, q) /\ JLess(q, nt2)
      THEN [l EXCEPT !.adate_0 = adate_0, !.k2 = l.k1 + 1, !.nt2 = nt2,
                     !.iter = @ + 1, !.found = TRUE]
      ELSE [l EXCEPT !.adate_0 = adate_0, !.k2 = l.k1 + 1, !.nt2 = nt2,
                     !.iter = @ + 1]

\* the test of the loop, for the new adate_0 and nt2
HuntTest(l, adate_0, nt2, q) ==
    IF JLeq(l.nt1, q) /\ JLess(q, nt2)
      THEN [l EXCEPT !.adate_0 = adate_0, !.k2 = l.k1 + 1, !.nt2 = nt2,
                     !.iter = @ + 1, !.found = TRUE]
      ELSE [l EXCEPT !.adate_0 = adate_0, !.k2 = l.k1 + 1, !.nt2 = nt2,
                     !.nt1 = nt2, !.k1 = l.k1 + 1, !.iter = @ + 1]

\* the body of the loop from julian_days_to_datetime(adate_0) on
HuntBody(l, adate_0, dt) ==
    IF ~InRange(dt) THEN Raise("OverflowError")
    ELSE HuntTest(l, adate_0, mean_phase(dt, l.k1 + 1),
                  datetime_to_julian_days(l.sdate))

\* one iteration of the loop: the locals after it, or the error raised
HuntNext(l) ==
    HuntBody(l, JAdd(l.adate_0, SYNODIC_MONTH),
             julian_days_to_datetime(JAdd(l.adate_0, SYNODIC_MONTH)))

\* the process goes on with the locals l, or returns the error l
HuntGo(l) ==
    IF IsError(l) THEN pc' = "returned" /\ result' = l /\ loc' = loc
    ELSE /\ pc' = (IF l.found THEN "hunt_found" ELSE "hunt_loop")
         /\ loc' = l
         /\ result' = None

\* phase_hunt up to its loop
CallPhaseHunt(Args) ==
    /\ pc = "idle"
    /\ \E arg \in Args :
         /\ call' = Called("phase_hunt", arg, DateOf(arg))
         /\ HuntGo(HuntInit(DateOf(arg)))
    /\ UNCHANGED <<now, default_date, last_noarg, obj, th>>

\* one iteration of the loop of phase_hunt
HuntStep ==
    /\ pc = "hunt_loop"
    /\ loc.iter < MaxHunt
    /\ HuntGo(HuntNext(loc))
    /\ UNCHANGED <<now, default_date, call, last_noarg, obj, th>>

\* the index of a quarter-date name in the list phase_hunt returns
QuarterIndex(a) == CHOOSE j \in 1..5 : QuarterNames[j] = a
IsQuarterName(a) == \E j \in 1..5 : QuarterNames[j] = a

\* the dates returned to the reader without being stored in the object
HuntDoneUnstored(r) ==
    /\ obj' = obj
    /\ result' = (IF call.op = "__getattr__" /\ ~IsError(r)
                    THEN Value(r.phases[QuarterIndex(call.arg)]) ELSE r)

\* phase_hunt after its loop; when __getattr__ made the call, the five
\* dates are stored in the object and the one asked for is returned
HuntDone(r) ==
    IF call.op = "__getattr__" /\ ~IsError(r)
      THEN /\ obj' = [obj EXCEPT !.quarters = r.phases]
           /\ result' = Value(r.phases[QuarterIndex(call.arg)])
      ELSE /\ obj' = obj
           /\ result' = r

HuntReturn ==
    /\ pc = "hunt_found"
    /\ pc' = "returned"
    /\ HuntDone(HuntResult(loc.k1, loc.k2))
    /\ UNCHANGED <<now, default_date, call, loc, last_noarg, th>>

\* __getattr__ without the test of the name: phase_hunt for every name that
\* is not found in the object
ReadAttrAnyName(Names) ==
    /\ pc = "idle"
    /\ obj # None
    /\ \E a \in Names :
         IF a \in StoredNames
           THEN Returns(Called("getattr", a, None), Value(obj.attrs[a])) /\ obj' = obj
         ELSE IF IsQuarterName(a) /\ obj.quarters # << >>
           THEN /\ Returns(Called("getattr", a, None),
                           Value(obj.quarters[QuarterIndex(a)]))
                /\ obj' = obj
         ELSE /\ obj.hunts < MaxCalls
              /\ call' = Called("__getattr__", a, obj.attrs.date)
              /\ obj' = [obj EXCEPT !.hunts = @ + 1]
              /\ HuntGo(HuntInit(obj.attrs.date))
              /\ UNCHANGED <<now, default_date, last_noarg, th>>

\* obj.a: an attribute found in the object is returned; for one that is
\* not, __getattr__ runs: phase_hunt(self.date) for a quarter-date name,
\* AttributeError for any other
ReadAttr(Names) ==
    /\ pc = "idle"
    /\ obj # None
    /\ \E a \in Names :
         IF a \in StoredNames
           THEN Returns(Called("getattr", a, None), Value(obj.attrs[a])) /\ obj' = obj
         ELSE IF IsQuarterName(a) /\ obj.quarters # << >>
           THEN /\ Returns(Called("getattr", a, None),
                           Value(obj.quarters[QuarterIndex(a)]))
                /\ obj' = obj
         ELSE IF IsQuarterName(a)
           THEN /\ obj.hunts < MaxCalls
                /\ call' = Called("__getattr__", a, obj.attrs.date)
                /\ obj' = [obj EXCEPT !.hunts = @ + 1]
                /\ HuntGo(HuntInit(obj.attrs.date))
                /\ UNCHANGED <<now, default_date, last_noarg, th>>
         ELSE Returns(Called("__getattr__", a, None), Raise("AttributeError"))
              /\ obj' = obj

\* kepler up to its loop
CallKepler(Ms, Eccs) ==
    /\ pc = "idle"
    /\ \E m \in Ms, ecc \in Eccs :
         /\ call' = Called("kepler", <<m, ecc>>, None)
         /\ loc' = KeplerLocals(m, ecc)
    /\ pc' = "kepler_loop"
    /\ result' = None
    /\ UNCHANGED <<now, default_date, last_noarg, obj, th>>

\* the process goes on with the locals l of kepler, returns e, or raises
KeplerGo(l) ==
    IF IsError(l) THEN pc' = "returned" /\ result' = l /\ loc' = loc
    ELSE IF l.break THEN pc' = "returned" /\ result' = Value(l.e) /\ loc' = l
    ELSE pc' = "kepler_loop" /\ result' = None /\ loc' = l

\* one iteration of the loop of kepler
KeplerStep ==
    /\ pc = "kepler_loop"
    /\ loc.iter < MaxKepler
    /\ KeplerGo(KeplerNext(loc))
    /\ UNCHANGED <<now, default_date, call, last_noarg, obj, th>>

\* the frame of a thread that goes on with the locals l, or returns the error l
Frame(arg, l) ==
    IF IsError(l) THEN [pc |-> "returned", arg |-> arg, loc |-> None, result |-> l]
    ELSE [pc |-> IF l.found THEN "found" ELSE "loop", arg |-> arg, loc |-> l,
          result |-> None]

\* the locals kept in one place for all threads: a thread works on those of
\* thread 1 whenever thread 1 is inside a call
ThreadLocalsShared(t) ==
    IF th[1].pc \in {"loop", "found"} THEN th[1].loc ELSE th[t].loc

\* the locals a thread's iteration works on: those of its own frame
ThreadLocals(t) == th[t].loc

\* thread t calls phase_hunt
ThreadCall(t, Args) ==
    /\ th[t].pc = "idle"
    /\ \E arg \in Args : th' = [th EXCEPT ![t] = Frame(arg, HuntInit(arg))]
    /\ UNCHANGED <<now, default_date, pc, call, loc, result, last_noarg, obj>>

\* thread t runs one iteration of the loop
ThreadStep(t) ==
    /\ th[t].pc = "loop"
    /\ th[t].loc.iter < MaxHunt
    /\ th' = [th EXCEPT ![t] = Frame(th[t].arg, HuntNext(ThreadLocals(t)))]
    /\ UNCHANGED <<now, default_date, pc, call, loc, result, last_noarg, obj>>

\* thread t builds the list and returns
ThreadReturn(t) ==
    /\ th[t].pc = "found"
    /\ th' = [th EXCEPT ![t] = [@ EXCEPT !.pc = "returned",
                                         !.result = HuntResult(ThreadLocals(t).k1,
                                                               ThreadLocals(t).k2)]]
    /\ UNCHANGED <<now, default_date, pc, call, loc, result, last_noarg, obj>>

\* thread t goes on to its next call
ThreadDone(t) ==
    /\ th[t].pc = "returned"
    /\ th' = [th EXCEPT ![t] = IdleFrame]
    /\ UNCHANGED <<now, default_date, pc, call, loc, result, last_noarg, obj>>

\* the caller goes on; a call made without a date is remembered
Continue ==
    /\ pc = "returned"
    /\ pc' = "idle"
    /\ call' = [op |-> "none"]
    /\ loc' = None
    /\ result' = None
    /\ last_noarg' = IF call.noarg THEN << [at |-> call.at, date |-> call.date] >>
                     ELSE last_noarg
    /\ UNCHANGED <<now, default_date, obj, th>>

\* phase_string alone
NextString == CallPhaseString(Fractions) \/ Continue
SpecString == Init /\ [][NextString]_vars

\* true_phase alone
NextTruePhase == CallTruePhase(Lunations, Selectors) \/ Continue
SpecTruePhase == Init /\ [][NextTruePhase]_vars

\* the converters alone
NextConv == CallToJulian(ConvDates) \/ CallFromJulian \/ Continue
SpecConv == Init /\ [][NextConv]_vars

\* phase with a date or a number
NextPhase == CallPhase(Dates \cup Numbers) \/ Continue
SpecPhase == Init /\ [][NextPhase]_vars

\* phase_hunt with a date
NextHunt == CallPhaseHunt(HuntDates) \/ HuntStep \/ HuntReturn \/ Continue
SpecHunt == Init /\ [][NextHunt]_vars

\* the calls that take a date, made with and without one as time passes
NextDefault ==
    \/ Tick
    \/ CallPhase(ObjDates \cup {NoArg})
    \/ NewMoonPhase(ObjDates \cup {NoArg})
    \/ CallMain
    \/ CallPhaseHunt({NoArg})
    \/ HuntStep
    \/ HuntReturn
    \/ Continue
SpecDefault == Init /\ [][NextDefault]_vars

\* a MoonPhase object and the reads of its attributes
NextObject ==
    \/ NewMoonPhase(ObjDates \cup Numbers)
    \/ ReadAttr(AttrNames)
    \/ HuntStep
    \/ HuntReturn
    \/ Continue
SpecObject == Init /\ [][NextObject]_vars

\* kepler alone
NextKepler == CallKepler(KeplerAngles, KeplerEccs) \/ KeplerStep \/ Continue
SpecKepler == Init /\ [][NextKepler]_vars

\* threads calling phase_hunt concurrently
NextThreads ==
    \E t \in Threads :
        \/ ThreadCall(t, ThreadDates)
        \/ ThreadStep(t)
        \/ ThreadReturn(t)
        \/ ThreadDone(t)
SpecThreads == Init /\ [][NextThreads]_vars

\* every call
Next ==
    \/ Tick
    \/ NextString
    \/ NextTruePhase
    \/ NextConv
    \/ NextPhase
    \/ NextHunt
    \/ NextDefault
    \/ NextObject
    \/ NextKepler
    \/ NextThreads
Spec == Init /\ [][Next]_vars

(***************************************************************************)
(* Properties.                                                             *)
(***************************************************************************)
\* a is earlier than b, for two datetimes
Before(a, b) == a.ord < b.ord \/ (a.ord = b.ord /\ a.tod < b.tod)

\* phase_hunt, called with a date, has returned its list
HuntListed ==
    /\ pc = "returned"
    /\ call.op = "phase_hunt"
    /\ "phases" \in DOMAIN result

\* C1: the list phase_hunt(q) returns brackets the query with true phase
\* times: new <= q < next new.
C1_QueryBracketed ==
    HuntListed =>
        /\ ~Before(call.date, result.phases[1])
        /\ Before(call.date, result.phases[5])

\* C2: the five moments phase_hunt returns are strictly ascending: new <
\* first quarter < full < third quarter < next new.
C2_Ascending ==
    HuntListed => \A j \in 1..4 : Before(result.phases[j], result.phases[j + 1])

\* phase_hunt has returned a list for a query in a lunation of 2024
C2_Witness == HuntListed /\ year(call.date) = 2024 /\ loc.iter > 1

\* phase_string has returned
StringReturned == pc = "returned" /\ call.op = "phase_string"

\* the label paired with the first threshold that p is strictly less than
FirstAbove(p) ==
    IF p < 50000 THEN "new"
    ELSE IF p < 200000 THEN "waxing crescent"
    ELSE IF p < 300000 THEN "first quarter"
    ELSE IF p < 450000 THEN "waxing gibbous"
    ELSE IF p < 550000 THEN "full"
    ELSE IF p < 700000 THEN "waning gibbous"
    ELSE IF p < 800000 THEN "last quarter"
    ELSE IF p < 950000 THEN "waning crescent"
    ELSE "new"

\* C3: for a fraction p in [0, 1), phase_string(p) is the label paired with
\* the first threshold that p is strictly less than, so a p equal to a
\* threshold falls in the next bucket and p >= 0.95 gives "new"; the result
\* is one of the eight labels and no index error occurs.
C3_FirstThresholdAbove ==
    (StringReturned /\ call.arg >= 0 /\ call.arg < FracScale) =>
        /\ result = FirstAbove(call.arg)
        /\ result \in { phase_strings[j][2] : j \in 1..Len(phase_strings) }

\* phase_string(0.3), a fraction equal to a threshold, has returned
C3_Witness == StringReturned /\ call.arg = 300000 /\ result = "waxing gibbous"

\* C4: phase_string(0.45) returns "waxing gibbous" and phase_string(0.449999)
\* returns "first quarter".
C4_WaxingGibbousFrom045 ==
    StringReturned =>
        /\ call.arg = 450000 => result = "waxing gibbous"
        /\ call.arg = 449999 => result = "first quarter"

\* C4, as the code has it: 0.45 is the start of the bucket "full", so
\* phase_string(0.45) returns "full" and phase_string(0.449999) returns
\* "waxing gibbous".
C4_FullFrom045 ==
    StringReturned =>
        /\ call.arg = 450000 => result = "full"
        /\ call.arg = 449999 => result = "waxing gibbous"

\* phase_string(0.45) has returned
C4_Witness == StringReturned /\ call.arg = 450000

\* true_phase has returned or raised
TruePhaseReturned == pc = "returned" /\ call.op = "true_phase"

\* the distance of a selector from the nearest canonical value 0, 0.25, 0.5, 0.75
SelectorGap(t) ==
    CHOOSE g \in { Abs(t - c) : c \in {0, 250, 500, 750} } :
        \A c \in {0, 250, 500, 750} : g <= Abs(t - c)

\* C5: true_phase(k, t) raises ValueError if and only if t is not within
\* 0.01 of any of the canonical selectors 0, 0.25, 0.5, 0.75 (negative
\* selectors and 1.0 included); selectors exactly 0.01 away are left open.
C5_ValueErrorIffFar ==
    TruePhaseReturned =>
        /\ SelectorGap(call.arg[2]) > 10 => result = Raise("ValueError")
        /\ SelectorGap(call.arg[2]) < 10 => result # Raise("ValueError")

\* phase or the MoonPhase constructor has returned or raised
PhaseReturned == pc = "returned" /\ call.op \in {"phase", "MoonPhase"}

\* C6: phase and the MoonPhase constructor, given a Julian Day Number as a
\* plain number, return the phase result without raising.
C6_NumberAccepted ==
    (PhaseReturned /\ call.arg \in Numbers) => ~IsError(result)

\* julian_days_to_datetime has returned or raised, given the Julian Day
\* Number of the datetime call.date
RoundTripReturned == pc = "returned" /\ call.op = "julian_days_to_datetime"

\* the distance of two datetimes in ticks, for datetimes at most a day apart
TickGap(a, b) == Abs((a.ord - b.ord) * DayTicks + (a.tod - b.tod))

\* C7: julian_days_to_datetime(datetime_to_julian_days(M)) is M to within
\* 1 millisecond, for every moment M from 0001-01-01 on.
C7_RoundTrip ==
    RoundTripReturned =>
        /\ ~IsError(result)
        /\ Abs(result.ord - call.date.ord) <= 1
        /\ TickGap(result, call.date) <= 10

\* datetime_to_julian_days has returned
JulianReturned == pc = "returned" /\ call.op = "datetime_to_julian_days"

\* C8: datetime_to_julian_days(M) is the time elapsed since 0001-01-01T00:00
\* in days plus 1721425.5, so 2000-01-01T12:00 maps to 2451545.0 and the
\* difference of two results is the elapsed time between the two moments
\* (here from 1900-01-01T12:00, day 693596 of the calendar), leap years or not.
C8_ElapsedDaysPlusOffset ==
    JulianReturned =>
        /\ result = Norm(1721425 + (call.arg.ord - 1), call.arg.tod + DayTicks \div 2)
        /\ call.arg = datetime(2000, 1, 1, 12, 0, 0) => result = [d |-> 2451545, t |-> 0]
        /\ JSub(result, datetime_to_julian_days(datetime(1900, 1, 1, 12, 0, 0)))
             = Norm(call.arg.ord - 693596, call.arg.tod - DayTicks \div 2)

\* datetime_to_julian_days(2000-01-01T12:00) has returned
C8_Witness ==
    JulianReturned /\ call.arg = datetime(2000, 1, 1, 12, 0, 0) /\ result.d = 2451545

\* phase has returned its mapping
PhaseMapped == pc = "returned" /\ call.op = "phase" /\ "phase" \in DOMAIN result

\* C9: the mapping phase returns has phase in [0, 1), illuminated in [0, 1]
\* and age in [0, 29.53058868), the age being 29.53058868 times the phase.
C9_Ranges ==
    PhaseMapped =>
        /\ 0 <= result.phase /\ result.phase < FracScale
        /\ 0 <= result.illuminated /\ result.illuminated <= SinScale
        /\ 0 <= result.age /\ result.age < 29530589
        /\ Abs(result.age - MulDiv(result.phase, 29530589, FracScale)) <= 30

\* phase has returned for a moment late in the cycle, where the Moon's
\* longitude is behind the Sun's
C9_Witness == PhaseMapped /\ result.phase > 990000 /\ result.illuminated < 1000

\* C10: a call of MoonPhase, phase, phase_hunt or main made without a date
\* computes for the UTC time at the moment of the call.
C10_NoArgIsNow ==
    (pc # "idle" /\ call.noarg) => call.date = utcnow(call.at)

\* the held MoonPhase object has its five quarter dates stored
Cached(o) == o # None /\ o.quarters # << >>

\* a read of a quarter-date attribute has returned a value
QuarterRead ==
    /\ pc = "returned"
    /\ call.op \in {"getattr", "__getattr__"}
    /\ IsQuarterName(call.arg)
    /\ ~IsError(result)

LazyState ==
    /\ (pc = "returned" /\ call.op = "MoonPhase" /\ ~IsError(result)) =>
           /\ obj = Object(result)
           /\ obj.hunts = 0 /\ obj.quarters = << >>
           /\ StoredNames \subseteq DOMAIN obj.attrs
    /\ (pc \in {"hunt_loop", "hunt_found"} /\ call.op = "__getattr__") =>
           /\ obj.quarters = << >>
           /\ obj.hunts >= 1
    /\ QuarterRead =>
           /\ Len(obj.quarters) = 5
           /\ result = Value(obj.quarters[QuarterIndex(call.arg)])
           /\ obj.hunts >= 1

\* once the five dates are stored the object stays as it is, its count of
\* phase_hunt calls included, until another object takes its place
LazyStep == (Cached(obj) /\ Cached(obj')) => obj' = obj

UnknownRead ==
    /\ pc = "idle"
    /\ call'.op = "__getattr__"
    /\ ~IsQuarterName(call'.arg)

\* C12: reading an attribute that is neither a stored field nor one of the
\* five quarter-date names raises AttributeError, calls no phase_hunt and
\* leaves the object as it was, the quarter dates uncomputed if they were.
C12_UnknownAttribute ==
    [][UnknownRead =>
          (pc' = "returned" /\ result' = Raise("AttributeError") /\ obj' = obj)]_vars

\* AttributeError has been raised by an object whose quarter dates are not
\* computed
C12_Witness ==
    /\ pc = "returned"
    /\ call.op = "__getattr__"
    /\ call.arg = "no_such_attribute"
    /\ result = Raise("AttributeError")
    /\ obj.quarters = << >>
    /\ obj.hunts = 0

RECURSIVE HuntRun(_, _)
\* the loop of phase_hunt run to its end from the locals l, in at most n
\* iterations: the locals at the exit, or the error raised
HuntRun(l, n) ==
    IF IsError(l) THEN l
    ELSE IF l.found \/ n = 0 THEN l
    ELSE HuntRun(HuntNext(l), n - 1)

\* what the locals at the exit of the loop give
HuntEnd(l) ==
    IF IsError(l) THEN l
    ELSE IF l.found THEN HuntResult(l.k1, l.k2)
    ELSE None

\* phase_hunt(arg) run alone, from the call to the return
HuntAlone(arg) == HuntEnd(HuntRun(HuntInit(arg), MaxHunt))

\* C13: the calls write no shared state, so under any interleaving of calls
\* from several threads each call returns what it returns when run alone,
\* and two calls with equal arguments return equal results.
C13_Interleaving ==
    /\ default_date = utcnow(0)
    /\ \A t \in Threads :
         th[t].pc = "returned" => th[t].result = HuntAlone(th[t].arg)
    /\ \A t, u \in Threads :
         (th[t].pc = "returned" /\ th[u].pc = "returned" /\ th[t].arg = th[u].arg)
             => th[t].result = th[u].result

\* a call has returned its list while a call of another thread, made with
\* another date, is inside its loop
C13_Witness ==
    /\ th[1].pc = "returned"
    /\ "phases" \in DOMAIN th[1].result
    /\ th[2].pc = "loop"
    /\ th[2].loc.iter >= 1
    /\ th[2].arg # th[1].arg

\* the canonical phase of the j-th moment of the list phase_hunt returns
Canonical(j) == ((j - 1) % 4) * (FracScale \div 4)

\* the distance of two phase fractions round the cycle: min(|d|, 1 - |d|)
CyclicGap(p, q) ==
    IF Abs(p - q) > FracScale \div 2 THEN FracScale - Abs(p - q) ELSE Abs(p - q)

\* phase(B)['phase'] is within 0.001 of the canonical phase, for each of
\* the five moments B of the list
SelfConsistent(list) ==
    \A j \in 1..5 : CyclicGap(phase(list[j]).phase, Canonical(j)) < FracScale \div 1000

\* C14: for every query moment, phase(B)['phase'] is within 0.001 (cyclic
\* distance) of 0, 0.25, 0.5, 0.75, 0 for the five moments B that phase_hunt
\* returns.
C14_SelfConsistentAlways == HuntListed => SelfConsistent(result.phases)

\* C14, as the code has it: the two calculations agree within 0.001 for
\* query moments of the years 1900 to 2100; they drift apart with the
\* distance from the epochs of the two calculations.
C14_SelfConsistentModern ==
    (HuntListed /\ year(call.date) >= 1900 /\ year(call.date) <= 2100) =>
        SelfConsistent(result.phases)

\* phase_hunt has returned for a query of 2024 and phase gives the full
\* moon of the list a phase within 0.001 of 0.5
C14_Witness ==
    /\ HuntListed
    /\ year(call.date) = 2024
    /\ CyclicGap(phase(result.phases[3]).phase, Canonical(3)) < FracScale \div 1000

\* the loop of phase_hunt is about to run its first iteration
HuntEntered ==
    /\ pc = "hunt_loop"
    /\ call.op = "phase_hunt"
    /\ loc.iter = 0

\* C15: the search of phase_hunt terminates for every query of the years 1
\* to 9999: the first mean new moon nt1 is never later than JDN(query), and
\* so the loop, which only moves forward, exits with a bracket.
C15_SearchTerminates ==
    /\ HuntEntered => JLeq(loc.nt1, datetime_to_julian_days(loc.sdate))
    /\ (pc = "returned" /\ call.op = "phase_hunt" /\ loc # None) => ~IsError(result)

\* what holds of the locals of phase_hunt: while the search goes on, the
\* interval tried next starts where the one just tried ended; at the exit
\* of the loop k2 = k1 + 1 and nt1 <= JDN(query) < nt2, nt2 being the mean
\* new moon of lunation k2; and the list is made of the true phases
\* (k1, 0), (k1, 0.25), (k1, 0.5), (k1, 0.75), (k2, 0)
BracketState ==
    /\ (pc = "hunt_loop" /\ loc.iter >= 1) =>
           /\ loc.nt1 = loc.nt2
           /\ loc.k1 = loc.k2
    /\ pc = "hunt_found" =>
           /\ loc.k2 = loc.k1 + 1
           /\ JLeq(loc.nt1, datetime_to_julian_days(loc.sdate))
           /\ JLess(datetime_to_julian_days(loc.sdate), loc.nt2)
           /\ loc.nt2 = mean_phase(julian_days_to_datetime(loc.adate_0), loc.k2)
    /\ (pc = "returned" /\ call.op = "phase_hunt" /\ loc # None /\ loc.found) =>
           /\ result # Raise("ValueError")
           /\ ~IsError(result) =>
                  result.phases =
                      << true_phase(loc.k1, 0), true_phase(loc.k1, 250),
                         true_phase(loc.k1, 500), true_phase(loc.k1, 750),
                         true_phase(loc.k2, 0) >>

\* an iteration tries the interval that starts at the nt2 of the one before,
\* one lunation on
BracketStep ==
    (pc = "hunt_loop" /\ loc.iter >= 1 /\ pc' \in {"hunt_loop", "hunt_found"}) =>
        /\ loc'.k2 = loc.k2 + 1
        /\ pc' = "hunt_found" => (loc'.nt1 = loc.nt2 /\ loc'.k1 = loc.k2)

\* C16: whenever the loop of phase_hunt exits, k2 = k1 + 1 and nt1 <=
\* JDN(query) < nt2; the intervals [nt1, nt2) tried are contiguous; and the
\* five results are computed from (k1, 0), (k1, 0.25), (k1, 0.5), (k1, 0.75),
\* (k2, 0) in that order, never from an invalid selector.
C16_Bracket == []BracketState /\ [][BracketStep]_vars

\* the loop has exited with a bracket after several iterations
C16_Witness ==
    /\ pc = "hunt_found"
    /\ loc.iter >= 3
    /\ JLeq(loc.nt1, datetime_to_julian_days(loc.sdate))
    /\ JLess(datetime_to_julian_days(loc.sdate), loc.nt2)

\* C17: kepler never loops on: every call of kepler has left its loop, with a
\* value or with an error, before MaxKepler iterations have run without
\* |delta| <= 1e-6.
C17_KeplerStops == pc = "kepler_loop" => loc.iter < MaxKepler

=============================================================================
